---- MODULE Spec2Model ----
(***************************************************************************)
(* Model of app.py, the Streamlit "Universal Credit Act 2025 Analyzer".    *)
(*                                                                         *)
(* A Streamlit application is a script that is re-executed from top to     *)
(* bottom after every user interaction.  st.session_state and the widget   *)
(* values survive between executions; everything else is recomputed.  One  *)
(* step of the model is one complete execution of the script, triggered by *)
(* one interaction (a widget edit, or a click on one button, which is the  *)
(* only button whose st.button(...) call returns True in that execution).  *)
(*                                                                         *)
(* Python values are tagged records [t |-> type, v |-> value] so that      *)
(* None, "", {} and [] stay distinct.  A document text is a run-length     *)
(* encoded string: a sequence of runs [ch |-> c, n |-> k] (k >= 1,         *)
(* adjacent runs have different characters), which lets the model hold     *)
(* texts longer than the 15000-character prompt limit.  Every other        *)
(* string (messages, summaries, evidence) is a sequence of words.          *)
(***************************************************************************)
EXTENDS Integers, Sequences, FiniteSets, TLC

-----------------------------------------------------------------------------
(* Python values and truthiness                                            *)

NoneVal == [t |-> "None"]
Str(s) == [t |-> "str", v |-> s]
Dict(d) == [t |-> "dict", v |-> d]
List(l) == [t |-> "list", v |-> l]
FileObj(f) == [t |-> "file", v |-> f]

EmptyDict == [k \in {} |-> <<>>]

\* bool(x) as Python evaluates it in `if x:` / `not x` / `a and b`
Truthy(x) ==
    CASE x.t = "None" -> FALSE
      [] x.t = "str"  -> x.v # <<>>
      [] x.t = "list" -> x.v # <<>>
      [] x.t = "dict" -> DOMAIN x.v # {}
      [] OTHER        -> TRUE

-----------------------------------------------------------------------------
(* Run-length encoded text                                                 *)

Whitespace == {" ", "\n"}

Run(c, k) == [ch |-> c, n |-> k]

RECURSIVE TextLen(_)
\* len(text)
TextLen(text) ==
    IF text = <<>> THEN 0 ELSE Head(text).n + TextLen(Tail(text))

\* a + b on strings
Concat(a, b) ==
    IF a = <<>> THEN b
    ELSE IF b = <<>> THEN a
    ELSE IF a[Len(a)].ch = Head(b).ch
         THEN SubSeq(a, 1, Len(a) - 1)
              \o <<Run(Head(b).ch, a[Len(a)].n + Head(b).n)>>
              \o Tail(b)
         ELSE a \o b

RECURSIVE Slice(_, _)
\* text[:k]
Slice(text, k) ==
    IF text = <<>> \/ k <= 0 THEN <<>>
    ELSE IF Head(text).n <= k
         THEN <<Head(text)>> \o Slice(Tail(text), k - Head(text).n)
         ELSE <<Run(Head(text).ch, k)>>

RECURSIVE LStrip(_)
LStrip(text) ==
    IF text # <<>> /\ Head(text).ch \in Whitespace
    THEN LStrip(Tail(text)) ELSE text

RECURSIVE RStrip(_)
RStrip(text) ==
    IF text # <<>> /\ text[Len(text)].ch \in Whitespace
    THEN RStrip(SubSeq(text, 1, Len(text) - 1)) ELSE text

\* text.strip()
Strip(text) == LStrip(RStrip(text))

-----------------------------------------------------------------------------
(* Messages shown by st.error / st.info / st.warning / st.success          *)

Notice(level, text) == [level |-> level, text |-> text]

-----------------------------------------------------------------------------
(* Text Source Adapter                                                     *)

NL == <<Run("\n", 1)>>

RECURSIVE PageLoop(_, _)
\* for page in pdf_reader.pages: text += page.extract_text() + "\n"
PageLoop(pages, text) ==
    IF pages = <<>> THEN text
    ELSE PageLoop(Tail(pages), Concat(Concat(text, Head(pages)), NL))

\* A PDF payload is [wellformed, pages, err]: PdfReader raises err on a
\* payload that is not well formed, otherwise pages[i] is what
\* page.extract_text() returns for page i.
extract_text_from_pdf(pdf_file) ==
    IF pdf_file.wellformed
    THEN [ret |-> Str(Strip(PageLoop(pdf_file.pages, <<>>))),
          notices |-> <<>>]
    ELSE [ret |-> Str(<<>>),
          notices |-> <<Notice("error",
                         <<"Error extracting text from PDF: ">> \o pdf_file.err)>>]

-----------------------------------------------------------------------------
(* The provider and the JSON library                                       *)

\* What client.chat.completions.create does for one request: it raises, or
\* it returns a response whose message content is `content`.
Raises(msg) == [kind |-> "raise", msg |-> msg]
Responds(content) == [kind |-> "content", content |-> content]

\* A content string is described by what json.loads makes of it.
JsonText(value) == [t |-> "str", v |-> <<"json">>, wellformed |-> TRUE, value |-> value]
BadJsonText(msg) == [t |-> "str", v |-> <<"not json">>, wellformed |-> FALSE, msg |-> msg]

\* json.dumps(value, indent=2)
json_dumps(value) == JsonText(value)

\* json.loads(content): the parsed value, or the exception raised
json_loads(content) ==
    IF content.t # "str"
    THEN [raised |-> TRUE, type |-> "TypeError",
          msg |-> <<"the JSON object must be str, bytes or bytearray, not NoneType">>]
    ELSE IF content.wellformed
         THEN [raised |-> FALSE, value |-> content.value]
         ELSE [raised |-> TRUE, type |-> "JSONDecodeError", msg |-> content.msg]

\* text[:15000]
MaxActChars == 15000

\* the slice forgotten: the whole text goes into the request
ActBodyUntruncated(text) == text

ActBody(text) == Slice(text, MaxActChars)

\* One request to the provider as the log `calls` keeps it: the user message
\* (the fixed instruction text of the task around the Act body) and what the
\* provider did with it.
Call(task, text, outcome) ==
    [task |-> task, act_text |-> ActBody(text), outcome |-> outcome]

-----------------------------------------------------------------------------
(* Analysis Invoker                                                        *)

\* the failure message returned as if it were the summary
summarize_act_returns_message(text, outcome) ==
    IF outcome.kind = "raise"
    THEN [ret |-> Str(<<"Error generating summary: ">> \o outcome.msg),
          notices |-> <<Notice("error", <<"Error generating summary: ">> \o outcome.msg)>>,
          calls |-> <<Call("summarize", text, outcome)>>]
    ELSE [ret |-> outcome.content,
          notices |-> <<>>,
          calls |-> <<Call("summarize", text, outcome)>>]

summarize_act(text, outcome) ==
    IF outcome.kind = "raise"
    THEN [ret |-> Str(<<>>),
          notices |-> <<Notice("error", <<"Error generating summary: ">> \o outcome.msg)>>,
          calls |-> <<Call("summarize", text, outcome)>>]
    ELSE [ret |-> outcome.content,
          notices |-> <<>>,
          calls |-> <<Call("summarize", text, outcome)>>]

extract_legislative_sections(text, outcome) ==
    LET log == <<Call("extract_sections", text, outcome)>>
        parsed == json_loads(outcome.content)
    IN  IF outcome.kind = "raise"
        THEN [ret |-> Dict(EmptyDict),
              notices |-> <<Notice("error", <<"Error extracting sections: ">> \o outcome.msg)>>,
              calls |-> log]
        ELSE IF ~parsed.raised
        THEN [ret |-> parsed.value, notices |-> <<>>, calls |-> log]
        ELSE IF parsed.type = "JSONDecodeError"
        THEN [ret |-> Dict(EmptyDict),
              notices |-> <<Notice("error", <<"Failed to parse JSON response: ">> \o parsed.msg)>>,
              calls |-> log]
        ELSE [ret |-> Dict(EmptyDict),
              notices |-> <<Notice("error", <<"Error extracting sections: ">> \o parsed.msg)>>,
              calls |-> log]

rules ==
    << "Act must define key terms",
       "Act must specify eligibility criteria",
       "Act must specify responsibilities of the administering authority",
       "Act must include enforcement or penalties",
       "Act must include payment calculation or entitlement structure",
       "Act must include record-keeping or reporting requirements" >>

\* the comprehension stopping one rule short
PlaceholdersOneShort(status, evidence) ==
    [i \in 1..(Len(rules) - 1) |->
        [rule |-> rules[i], status |-> status, evidence |-> evidence, confidence |-> 0]]

\* [{"rule": rule, "status": s, "evidence": e, "confidence": 0} for rule in rules]
Placeholders(status, evidence) ==
    [i \in 1..Len(rules) |->
        [rule |-> rules[i], status |-> status, evidence |-> evidence, confidence |-> 0]]

check_rules(text, outcome) ==
    LET log == <<Call("check_rules", text, outcome)>>
        parsed == json_loads(outcome.content)
        result == parsed.value
    IN  IF outcome.kind = "raise"
        THEN [ret |-> List(Placeholders("error", outcome.msg)),
              notices |-> <<Notice("error", <<"Error checking rules: ">> \o outcome.msg)>>,
              calls |-> log]
        ELSE IF ~parsed.raised
        THEN IF result.t = "dict" /\ "rules" \in DOMAIN result.v
             THEN [ret |-> result.v.rules, notices |-> <<>>, calls |-> log]
             ELSE [ret |-> List(Placeholders("unknown", <<"Could not parse">>)),
                   notices |-> <<Notice("error", <<"Unexpected response structure">>)>>,
                   calls |-> log]
        ELSE IF parsed.type = "JSONDecodeError"
        THEN [ret |-> List(Placeholders("error", <<"JSON parse error: ">> \o parsed.msg)),
              notices |-> <<Notice("error", <<"Failed to parse JSON response: ">> \o parsed.msg)>>,
              calls |-> log]
        ELSE [ret |-> List(Placeholders("error", parsed.msg)),
              notices |-> <<Notice("error", <<"Error checking rules: ">> \o parsed.msg)>>,
              calls |-> log]

generate_final_report(summary_, sections_, rule_checks_) ==
    Dict([summary |-> summary_, sections |-> sections_, rule_checks |-> rule_checks_])

-----------------------------------------------------------------------------
(* Inputs: what the user can type or upload, what the provider can answer  *)

\* characters of the long pasted texts beyond the prompt limit
Over == 1

\* longest "rules" array the provider returns
MaxRulesLen == 7

ApiKeys == {Str(<<>>), Str(<<"sk-test">>)}

ShortText == <<Run("a", 3)>>
LongText == <<Run("a", MaxActChars - 1), Run("b", 1 + Over)>>

PastedTexts == {Str(<<>>), Str(ShortText), Str(LongText)}

GoodPdf ==
    [wellformed |-> TRUE,
     pages |-> << <<Run(" ", 1), Run("a", 2)>>, <<Run("b", 1), Run("\n", 1)>>, <<>> >>]
ScannedPdf == [wellformed |-> TRUE, pages |-> << <<>>, <<Run(" ", 1)>> >>]
BrokenPdf == [wellformed |-> FALSE, err |-> <<"EOF marker not found">>]

PdfFiles == {FileObj(GoodPdf), FileObj(ScannedPdf), FileObj(BrokenPdf)}

ProviderErrors == {<<"Connection error.">>}

JsonErrors == {<<"Expecting value: line 1 column 1 (char 0)">>}

SummaryOutcomes ==
    {Raises(m) : m \in ProviderErrors} \cup {Responds(Str(<<"- Purpose ...">>))}

SectionKeys ==
    {"definitions", "obligations", "responsibilities", "eligibility",
     "payments", "penalties", "record_keeping"}

SectionsOutcomes ==
    {Raises(m) : m \in ProviderErrors}
    \cup {Responds(BadJsonText(m)) : m \in JsonErrors}
    \cup {Responds(JsonText(Dict([k \in SectionKeys |-> <<"...">>])))}

\* one element of a "rules" array
Verdict(i, status, confidence) ==
    [rule |-> rules[((i - 1) % Len(rules)) + 1], status |-> status,
     evidence |-> <<"Section 1">>, confidence |-> confidence]

\* n verdicts in rule order (wrapping round after the last rule)
Verdicts(n) ==
    [i \in 1..n |-> Verdict(i, IF i % 2 = 1 THEN "pass" ELSE "fail", 90)]

RulesArrays ==
    {Verdicts(n) : n \in {0, Len(rules), MaxRulesLen}}
    \cup {[i \in 1..Len(rules) |-> Verdict(Len(rules) + 1 - i, "pass", 80)],
          [Verdicts(Len(rules)) EXCEPT ![2] = Verdict(2, "maybe", 50)],
          [Verdicts(Len(rules)) EXCEPT ![3] = Verdict(3, "pass", 150),
                                       ![4] = [rule |-> rules[4], status |-> "fail"]]}

RulesOutcomes ==
    {Raises(m) : m \in ProviderErrors}
    \cup {Responds(BadJsonText(m)) : m \in JsonErrors}
    \cup {Responds(NoneVal),
          Responds(JsonText(List(<<>>))),
          Responds(JsonText(Dict([checks |-> List(Verdicts(Len(rules)))])))}
    \cup {Responds(JsonText(Dict([rules |-> List(a)]))) : a \in RulesArrays}

-----------------------------------------------------------------------------
(* State                                                                   *)

VARIABLES
    extracted_text,   \* st.session_state.extracted_text
    summary,          \* st.session_state.summary
    sections,         \* st.session_state.sections
    rule_checks,      \* st.session_state.rule_checks
    api_key,          \* value of the "OpenAI API Key" text input
    upload_option,    \* value of the "Choose input method:" radio
    uploaded_file,    \* value of the file uploader (None until a file is chosen)
    text_input,       \* None, or the value of the "Paste Act Text" text area
    clicked,          \* the button whose click triggered the last execution
    notices,          \* st.error/info/warning/success messages of the last execution
    calls,            \* requests sent to the provider during the last execution
    shown,            \* result sections rendered by the last execution
    final_report,     \* the report rendered by st.json, or None
    download          \* the download button offered, or None

session == <<extracted_text, summary, sections, rule_checks>>
widgets == <<api_key, upload_option, uploaded_file, text_input>>
display == <<clicked, notices, calls, shown, final_report, download>>
vars == <<session, widgets, display>>

InputMethods == {"Upload PDF File", "Paste Text"}

Buttons ==
    {"Extract Text from PDF", "Use Pasted Text", "Task 1: Extract Text",
     "Task 2: Summarize", "Task 3: Extract Sections", "Task 4: Check Rules",
     "Run All Tasks"}

-----------------------------------------------------------------------------
(* One execution of the script                                             *)

\* the test written as `is not None`, which lets "" through
HasTextNotNone(text) == text.t # "None"

\* `if st.session_state.extracted_text:` / `if not st.session_state.extracted_text:`
HasText(text) == Truthy(text)

\* the document input handlers of the sidebar
Sidebar(btn, option, file, pasted, text) ==
    IF option = "Upload PDF File"
    THEN IF Truthy(file) /\ btn = "Extract Text from PDF"
         THEN LET r == extract_text_from_pdf(file.v)
              IN  [text |-> r.ret,
                   notices |-> r.notices \o
                       (IF Truthy(r.ret)
                        THEN <<[level |-> "success", text |-> <<"Extracted characters">>,
                                n |-> TextLen(r.ret.v)]>>
                        ELSE <<>>)]
         ELSE [text |-> text, notices |-> <<>>]
    ELSE IF btn = "Use Pasted Text" /\ Truthy(pasted)
         THEN [text |-> pasted,
               notices |-> <<[level |-> "success", text |-> <<"Loaded characters">>,
                              n |-> TextLen(pasted.v)]>>]
         ELSE [text |-> text, notices |-> <<>>]

\* the sequence given up at the first failing provider call
RunAllTasksStopsAtFailure(text, o2, o3, o4) ==
    LET r2 == summarize_act(text.v, o2)
        r3 == extract_legislative_sections(text.v, o3)
        r4 == check_rules(text.v, o4)
    IN  IF o2.kind = "raise"
        THEN [summary |-> summary, sections |-> sections, rule_checks |-> rule_checks,
              notices |-> r2.notices, calls |-> r2.calls]
        ELSE IF o3.kind = "raise"
        THEN [summary |-> r2.ret, sections |-> sections, rule_checks |-> rule_checks,
              notices |-> r2.notices \o r3.notices, calls |-> r2.calls \o r3.calls]
        ELSE [summary |-> r2.ret, sections |-> r3.ret, rule_checks |-> r4.ret,
              notices |-> r2.notices \o r3.notices \o r4.notices
                          \o <<Notice("success", <<"All analysis tasks completed successfully!">>)>>,
              calls |-> r2.calls \o r3.calls \o r4.calls]

\* the three tasks in sequence, each storing its result
RunAllTasks(text, o2, o3, o4) ==
    LET r2 == summarize_act(text.v, o2)
        r3 == extract_legislative_sections(text.v, o3)
        r4 == check_rules(text.v, o4)
    IN  [summary |-> r2.ret, sections |-> r3.ret, rule_checks |-> r4.ret,
         notices |-> r2.notices \o r3.notices \o r4.notices
                     \o <<Notice("success", <<"All analysis tasks completed successfully!">>)>>,
         calls |-> r2.calls \o r3.calls \o r4.calls]

\* the handlers of the task buttons; s is the session state
Tasks(btn, s, o2, o3, o4) ==
    LET same == [summary |-> s.summary, sections |-> s.sections,
                 rule_checks |-> s.rule_checks, notices |-> <<>>, calls |-> <<>>]
    IN  IF btn = "Task 1: Extract Text"
        THEN [same EXCEPT !.notices = <<Notice("success", <<"Text already extracted!">>)>>]
        ELSE IF btn = "Task 2: Summarize" /\ HasText(s.text)
        THEN LET r == summarize_act(s.text.v, o2)
             IN  [same EXCEPT !.summary = r.ret, !.notices = r.notices, !.calls = r.calls]
        ELSE IF btn = "Task 3: Extract Sections" /\ HasText(s.text)
        THEN LET r == extract_legislative_sections(s.text.v, o3)
             IN  [same EXCEPT !.sections = r.ret, !.notices = r.notices, !.calls = r.calls]
        ELSE IF btn = "Task 4: Check Rules" /\ HasText(s.text)
        THEN LET r == check_rules(s.text.v, o4)
             IN  [same EXCEPT !.rule_checks = r.ret, !.notices = r.notices, !.calls = r.calls]
        ELSE IF btn = "Run All Tasks" /\ HasText(s.text)
        THEN RunAllTasks(s.text, o2, o3, o4)
        ELSE same

\* the condition with the Rule Checks left out
ReportReadyWithoutRules(summary_, sections_, rule_checks_) ==
    Truthy(summary_) /\ Truthy(sections_)

\* the condition under which the report is generated
ReportReady(summary_, sections_, rule_checks_) ==
    Truthy(summary_) /\ Truthy(sections_) /\ Truthy(rule_checks_)

\* the result sections, the report and the download button
Render(summary_, sections_, rule_checks_) ==
    LET report == generate_final_report(summary_, sections_, rule_checks_)
        ready == ReportReady(summary_, sections_, rule_checks_)
    IN  [shown |-> {h \in {"summary"} : Truthy(summary_)}
                   \cup {h \in {"sections"} : Truthy(sections_)}
                   \cup {h \in {"rule_checks"} : Truthy(rule_checks_)}
                   \cup {h \in {"final_report"} : ready},
         final_report |-> IF ready THEN report ELSE NoneVal,
         download |-> IF ready
                      THEN [t |-> "download_button",
                            data |-> json_dumps(report),
                            file_name |-> "universal_credit_act_2025_analysis.json",
                            mime |-> "application/json"]
                      ELSE NoneVal]

\* The whole script, run with the widget values (key, option, file, pasted)
\* and with btn the clicked button ("none" after a widget edit); o2, o3, o4
\* are what the provider does with a request of task 2, 3, 4.
ScriptRun(btn, key, option, file, pasted, o2, o3, o4) ==
    \E side \in {Sidebar(btn, option, file, pasted, extracted_text)} :
    \E r \in {Tasks(btn, [text |-> side.text, summary |-> summary, sections |-> sections,
                          rule_checks |-> rule_checks], o2, o3, o4)} :
    \E out \in {Render(r.summary, r.sections, r.rule_checks)} :
        /\ api_key' = key
        /\ upload_option' = option
        /\ uploaded_file' = file
        /\ text_input' = pasted
        /\ clicked' = btn
        /\ extracted_text' = side.text
        /\ IF ~Truthy(key)
           THEN \* no API key: st.stop()
                /\ notices' = side.notices \o
                      <<Notice("warning", <<"Please enter your OpenAI API key in the sidebar to begin.">>)>>
                /\ UNCHANGED <<summary, sections, rule_checks>>
                /\ calls' = <<>> /\ shown' = {}
                /\ final_report' = NoneVal /\ download' = NoneVal
           ELSE IF ~HasText(side.text)
           THEN \* no Document Text: st.stop()
                /\ notices' = side.notices \o
                      <<Notice("info", <<"Please upload a PDF file or paste text in the sidebar to begin.">>)>>
                /\ UNCHANGED <<summary, sections, rule_checks>>
                /\ calls' = <<>> /\ shown' = {}
                /\ final_report' = NoneVal /\ download' = NoneVal
           ELSE /\ notices' = side.notices \o r.notices
                /\ summary' = r.summary
                /\ sections' = r.sections
                /\ rule_checks' = r.rule_checks
                /\ calls' = r.calls
                /\ shown' = out.shown
                /\ final_report' = out.final_report
                /\ download' = out.download

\* no request is made in an execution that runs no task
NoOutcome == Responds(NoneVal)

\* the task buttons exist only in an execution that passed both st.stop() guards
MainRendered == Truthy(api_key) /\ HasText(extracted_text)

-----------------------------------------------------------------------------
(* Initial state: the first execution, with every widget at its default    *)

Init ==
    /\ extracted_text = NoneVal
    /\ summary = NoneVal
    /\ sections = NoneVal
    /\ rule_checks = NoneVal
    /\ api_key = Str(<<>>)
    /\ upload_option = "Upload PDF File"
    /\ uploaded_file = NoneVal
    /\ text_input = NoneVal
    /\ clicked = "none"
    /\ notices = <<Notice("warning", <<"Please enter your OpenAI API key in the sidebar to begin.">>)>>
    /\ calls = <<>>
    /\ shown = {}
    /\ final_report = NoneVal
    /\ download = NoneVal

-----------------------------------------------------------------------------
(* Interactions                                                            *)

EnterApiKey ==
    \E key \in ApiKeys :
        /\ key # api_key
        /\ ScriptRun("none", key, upload_option, uploaded_file, text_input,
                     NoOutcome, NoOutcome, NoOutcome)

\* The widget of the other input method is not created, so it starts again
\* from its default when the user switches back.
ChooseInputMethod ==
    \E option \in InputMethods :
        /\ option # upload_option
        /\ ScriptRun("none", api_key, option, NoneVal,
                     IF option = "Paste Text" THEN Str(<<>>) ELSE NoneVal,
                     NoOutcome, NoOutcome, NoOutcome)

UploadFile ==
    \E file \in PdfFiles \cup {NoneVal} :
        /\ upload_option = "Upload PDF File"
        /\ file # uploaded_file
        /\ ScriptRun("none", api_key, upload_option, file, text_input,
                     NoOutcome, NoOutcome, NoOutcome)

EditPastedText ==
    \E pasted \in PastedTexts :
        /\ upload_option = "Paste Text"
        /\ pasted # text_input
        /\ ScriptRun("none", api_key, upload_option, uploaded_file, pasted,
                     NoOutcome, NoOutcome, NoOutcome)

ClickExtractTextFromPdf ==
    /\ upload_option = "Upload PDF File"
    /\ Truthy(uploaded_file)
    /\ ScriptRun("Extract Text from PDF", api_key, upload_option, uploaded_file,
                 text_input, NoOutcome, NoOutcome, NoOutcome)

ClickUsePastedText ==
    /\ upload_option = "Paste Text"
    /\ ScriptRun("Use Pasted Text", api_key, upload_option, uploaded_file,
                 text_input, NoOutcome, NoOutcome, NoOutcome)

ClickTask1 ==
    /\ MainRendered
    /\ ScriptRun("Task 1: Extract Text", api_key, upload_option, uploaded_file,
                 text_input, NoOutcome, NoOutcome, NoOutcome)

ClickSummarize ==
    \E o2 \in SummaryOutcomes :
        /\ MainRendered
        /\ ScriptRun("Task 2: Summarize", api_key, upload_option, uploaded_file,
                     text_input, o2, NoOutcome, NoOutcome)

ClickExtractSections ==
    \E o3 \in SectionsOutcomes :
        /\ MainRendered
        /\ ScriptRun("Task 3: Extract Sections", api_key, upload_option, uploaded_file,
                     text_input, NoOutcome, o3, NoOutcome)

ClickCheckRules ==
    \E o4 \in RulesOutcomes :
        /\ MainRendered
        /\ ScriptRun("Task 4: Check Rules", api_key, upload_option, uploaded_file,
                     text_input, NoOutcome, NoOutcome, o4)

ClickRunAllTasks ==
    \E o2 \in SummaryOutcomes, o3 \in SectionsOutcomes, o4 \in RulesOutcomes :
        /\ MainRendered
        /\ ScriptRun("Run All Tasks", api_key, upload_option, uploaded_file,
                     text_input, o2, o3, o4)

Next ==
    \/ EnterApiKey
    \/ ChooseInputMethod
    \/ UploadFile
    \/ EditPastedText
    \/ ClickExtractTextFromPdf
    \/ ClickUsePastedText
    \/ ClickTask1
    \/ ClickSummarize
    \/ ClickExtractSections
    \/ ClickCheckRules
    \/ ClickRunAllTasks

Spec == Init /\ [][Next]_vars

-----------------------------------------------------------------------------
(* Vocabulary of the properties                                            *)

\* A Session State field is Empty when it holds None or an empty value.
Empty(x) == x \in {NoneVal, Str(<<>>), Dict(EmptyDict), List(<<>>)}

Populated(x) == ~Empty(x)

AllPopulated == Populated(summary) /\ Populated(sections) /\ Populated(rule_checks)

RanTask(task) == \E i \in 1..Len(calls) : calls[i].task = task

\* the outcome the provider gave to the request of `task` in the last execution
OutcomeOf(task) == (CHOOSE c \in {calls[i] : i \in 1..Len(calls)} : c.task = task).outcome

HasError(prefix) ==
    \E i \in 1..Len(notices) : notices[i].level = "error" /\ Head(notices[i].text) = prefix

-----------------------------------------------------------------------------
\* C1: whenever the Document Text is replaced, Summary, Section Bundle and
\* Rule Checks are all empty after the same step.
C1_ReplaceResetsArtifacts ==
    [][extracted_text' # extracted_text
          => Empty(summary') /\ Empty(sections') /\ Empty(rule_checks')]_vars

-----------------------------------------------------------------------------
\* C2: after any run of check_rules, whatever the provider did, the Rule
\* Checks are exactly six records and the i-th is about the i-th fixed rule.
C2_AlwaysSixRuleChecks ==
    RanTask("check_rules")
        => /\ rule_checks.t = "list"
           /\ Len(rule_checks.v) = 6
           /\ \A i \in 1..6 : rule_checks.v[i].rule = rules[i]

-----------------------------------------------------------------------------
ReportKeys == {"summary", "sections", "rule_checks"}

ReportUnavailable == final_report = NoneVal /\ download = NoneVal

ReportAvailable ==
    /\ final_report # NoneVal
    /\ download # NoneVal
    /\ DOMAIN final_report.v = ReportKeys
    /\ final_report.v.summary = summary
    /\ final_report.v.sections = sections
    /\ final_report.v.rule_checks = rule_checks
    /\ json_loads(download.data).value = final_report

\* C3 as stated: the report is unavailable when an artifact is absent, and
\* available with exactly the three keys whenever all three are populated.
C3_ReportIffAllPopulated ==
    /\ ~AllPopulated => ReportUnavailable
    /\ AllPopulated => ReportAvailable

\* C3 amended: the report is unavailable when an artifact is absent; it is
\* available, with exactly the three keys holding the current fields, when
\* all three are populated and the API key and the Document Text are non-empty.
C3_ReportWhenRendered ==
    /\ ~AllPopulated => ReportUnavailable
    /\ (AllPopulated /\ Populated(api_key) /\ Populated(extracted_text)) => ReportAvailable

C3_Witness ==
    /\ AllPopulated /\ ReportAvailable
    /\ clicked = "Run All Tasks"

-----------------------------------------------------------------------------
\* C4: a task run, failed or not, changes only its own field of Session
\* State, never the Document Text or the other two artifacts; Run All Tasks
\* invokes all three tasks in order even when an earlier one fails.
C4_TaskIsolation ==
    [][/\ clicked' = "Task 2: Summarize"
            => UNCHANGED <<extracted_text, sections, rule_checks>>
       /\ clicked' = "Task 3: Extract Sections"
            => UNCHANGED <<extracted_text, summary, rule_checks>>
       /\ clicked' = "Task 4: Check Rules"
            => UNCHANGED <<extracted_text, summary, sections>>
       /\ clicked' = "Run All Tasks"
            => /\ UNCHANGED extracted_text
               /\ [i \in 1..Len(calls') |-> calls'[i].task]
                     = <<"summarize", "extract_sections", "check_rules">>]_vars

C4_Witness ==
    /\ clicked = "Run All Tasks"
    /\ HasError("Error generating summary: ")
    /\ HasError("Failed to parse JSON response: ")
    /\ RanTask("check_rules")
    /\ Populated(rule_checks)

-----------------------------------------------------------------------------
\* C5: no request is ever sent with an empty Act body; an execution whose
\* Document Text is empty sends nothing and ends at a guard with its notice.
C5_NoCallWithEmptyText ==
    /\ \A i \in 1..Len(calls) : calls[i].act_text # <<>>
    /\ Empty(extracted_text)
          => /\ calls = <<>>
             /\ notices # <<>>
             /\ notices[Len(notices)].level \in {"info", "warning"}
             /\ shown = {}

C5_Witness ==
    /\ extracted_text = Str(<<>>)
    /\ Populated(api_key)
    /\ Populated(summary)
    /\ notices[Len(notices)].level = "info"

-----------------------------------------------------------------------------
\* p is an initial part of t (both run-length encoded)
IsPrefix(p, t) ==
    \/ p = <<>>
    \/ /\ Len(p) <= Len(t)
       /\ \A i \in 1..(Len(p) - 1) : p[i] = t[i]
       /\ p[Len(p)].ch = t[Len(p)].ch
       /\ p[Len(p)].n <= t[Len(p)].n

\* C6: for each task the Act body of the request is the first 15000
\* characters of the Document Text, the whole text when it is no longer than
\* that, and sending a request leaves the Document Text as it was.
C6_PromptHoldsFirst15000 ==
    /\ [](\A i \in 1..Len(calls) :
            /\ IsPrefix(calls[i].act_text, extracted_text.v)
            /\ TextLen(calls[i].act_text)
                 = IF TextLen(extracted_text.v) > 15000
                   THEN 15000 ELSE TextLen(extracted_text.v))
    /\ [][calls' # <<>> => extracted_text' = extracted_text]_vars

C6_Witness ==
    /\ clicked = "Run All Tasks"
    /\ TextLen(extracted_text.v) > 15000
    /\ [i \in 1..Len(calls) |-> calls[i].task]
          = <<"summarize", "extract_sections", "check_rules">>
    /\ \A i \in 1..Len(calls) : TextLen(calls[i].act_text) = 15000

-----------------------------------------------------------------------------
\* what a run of each task did, as the provider's answer tells
SummarizeFailed == RanTask("summarize") /\ OutcomeOf("summarize").kind = "raise"

Unparsed(o) == o.kind = "raise" \/ json_loads(o.content).raised

SectionsFailed == RanTask("extract_sections") /\ Unparsed(OutcomeOf("extract_sections"))

HasRulesWrapper(o) ==
    /\ ~Unparsed(o)
    /\ json_loads(o.content).value.t = "dict"
    /\ "rules" \in DOMAIN json_loads(o.content).value.v

CheckRulesFailed == RanTask("check_rules") /\ ~HasRulesWrapper(OutcomeOf("check_rules"))

\* C7 as stated: a field goes from Populated to Empty only on a document
\* reset, never through a failed run of its task, and a failed run never
\* takes a field from Empty to Populated.
C7_OnlySpecTransitions ==
    [][/\ (Populated(summary) /\ Empty(summary'))
             => (extracted_text' # extracted_text /\ ~SummarizeFailed')
       /\ (Populated(sections) /\ Empty(sections'))
             => (extracted_text' # extracted_text /\ ~SectionsFailed')
       /\ (Populated(rule_checks) /\ Empty(rule_checks'))
             => (extracted_text' # extracted_text /\ ~CheckRulesFailed')
       /\ (Empty(summary) /\ Populated(summary')) => ~SummarizeFailed'
       /\ (Empty(sections) /\ Populated(sections')) => ~SectionsFailed'
       /\ (Empty(rule_checks) /\ Populated(rule_checks')) => ~CheckRulesFailed']_vars

\* C7 amended: a field changes only in an execution that runs its task or
\* replaces the Document Text (and then only to Empty); a failed run of
\* Summarize or ExtractSections leaves its field Empty ("" or {}), whatever
\* it held, and a failed run of CheckRules leaves six placeholder records.
C7_RunOverwritesField ==
    [][/\ summary' # summary
             => \/ RanTask("summarize")'
                \/ extracted_text' # extracted_text /\ Empty(summary')
       /\ sections' # sections
             => \/ RanTask("extract_sections")'
                \/ extracted_text' # extracted_text /\ Empty(sections')
       /\ rule_checks' # rule_checks
             => \/ RanTask("check_rules")'
                \/ extracted_text' # extracted_text /\ Empty(rule_checks')
       /\ SummarizeFailed' => summary' = Str(<<>>)
       /\ SectionsFailed' => sections' = Dict(EmptyDict)
       /\ CheckRulesFailed'
             => /\ Populated(rule_checks')
                /\ Len(rule_checks'.v) = 6
                /\ \A i \in 1..6 : rule_checks'.v[i].status \in {"unknown", "error"}]_vars

C7_Witness ==
    /\ clicked = "Task 2: Summarize"
    /\ SummarizeFailed
    /\ summary = Str(<<>>)
    /\ Populated(sections)
    /\ Populated(rule_checks)

-----------------------------------------------------------------------------
\* the message of the failure behind a fallback of check_rules
FallbackEvidence(o) ==
    IF o.kind = "raise" THEN o.msg
    ELSE IF ~json_loads(o.content).raised THEN <<"Could not parse">>
    ELSE IF o.content.t = "str" THEN <<"JSON parse error: ">> \o json_loads(o.content).msg
    ELSE json_loads(o.content).msg

\* C8: a fallback of check_rules is one placeholder per fixed rule, in rule
\* order, with confidence 0 and the failure's message as evidence; the status
\* is "unknown" exactly when the response parsed but has no "rules" wrapper
\* and "error" exactly when parsing failed or the provider call raised.
C8_FallbackPlaceholders ==
    CheckRulesFailed
        => /\ rule_checks.t = "list"
           /\ Len(rule_checks.v) = 6
           /\ \A i \in 1..6 :
                /\ DOMAIN rule_checks.v[i] = {"rule", "status", "evidence", "confidence"}
                /\ rule_checks.v[i].rule = rules[i]
                /\ rule_checks.v[i].confidence = 0
                /\ rule_checks.v[i].evidence = FallbackEvidence(OutcomeOf("check_rules"))
                /\ rule_checks.v[i].status = "unknown"
                      <=> ~Unparsed(OutcomeOf("check_rules"))
                /\ rule_checks.v[i].status = "error"
                      <=> Unparsed(OutcomeOf("check_rules"))

C8_WitnessUnknown ==
    /\ CheckRulesFailed
    /\ ~Unparsed(OutcomeOf("check_rules"))
    /\ rule_checks.v[6].status = "unknown"

-----------------------------------------------------------------------------
\* C9: when the response parses and has a "rules" array, the Rule Checks
\* stored in Session State all have the four fields, a status of pass or
\* fail and a confidence in 0..100.
C9_StoredRuleChecksValid ==
    (RanTask("check_rules") /\ HasRulesWrapper(OutcomeOf("check_rules")))
        => \A i \in 1..Len(rule_checks.v) :
              /\ DOMAIN rule_checks.v[i] = {"rule", "status", "evidence", "confidence"}
              /\ rule_checks.v[i].status \in {"pass", "fail"}
              /\ rule_checks.v[i].confidence \in 0..100

-----------------------------------------------------------------------------
RECURSIVE JoinPages(_)
\* the page texts with one newline between consecutive pages
JoinPages(pages) ==
    IF pages = <<>> THEN <<>>
    ELSE IF Len(pages) = 1 THEN Head(pages)
    ELSE Concat(Concat(Head(pages), NL), JoinPages(Tail(pages)))

\* C10: when extraction yields no Document Text an extraction error is
\* shown; a successful extraction yields the page texts joined by newlines,
\* without leading or trailing whitespace.
C10_ExtractionErrorSurfaced ==
    clicked = "Extract Text from PDF"
        => /\ Empty(extracted_text) => HasError("Error extracting text from PDF: ")
           /\ Populated(extracted_text)
                 => /\ extracted_text.v = Strip(JoinPages(uploaded_file.v.pages))
                    /\ Head(extracted_text.v).ch \notin Whitespace
                    /\ extracted_text.v[Len(extracted_text.v)].ch \notin Whitespace

====
